---------------------------- MODULE Spec2Model ----------------------------
(***************************************************************************)
(* Model of backend/main.py of midi-agent: the path sandbox                *)
(* (validate_path), the four agent tools (read_file, write_file,           *)
(* edit_file, execute_command), and the /chat handler with its             *)
(* server-sent-event relay (event_generator).                              *)
(*                                                                         *)
(* Five specifications share the variables:                                *)
(*   Spec          one agent calling the tools on the filesystem;          *)
(*   SpecValidate  validate_path applied to every short candidate path;    *)
(*   SpecSandbox   one file-tool call on every short candidate path;       *)
(*   SpecRelay     the relay loop of one run, event by event;              *)
(*   SpecServer    concurrent /chat requests on the one asyncio loop.      *)
(*                                                                         *)
(* Paths are sequences of components; ".." is the parent component.  A     *)
(* canonical path is an absolute path, written from the filesystem root,   *)
(* with no "..", and no symbolic link on the way.  File data is a sequence *)
(* of byte tokens: "a", "b" (text), "CR", "LF" (line ends) and "BAD" (a    *)
(* byte that is not valid UTF-8).  A text (a Python str) may also hold     *)
(* "SUR", a lone surrogate code point, which UTF-8 cannot encode.  The     *)
(* platform is POSIX.                                                      *)
(***************************************************************************)
EXTENDS Naturals, Sequences, FiniteSets, TLC

VARIABLES
    fs,        \* the filesystem: canonical path -> node
    last,      \* the last tool call of the agent and what it returned
    run,       \* SpecRelay: state of the relay's run
    events,    \* SpecRelay: events the relay has received, in order
    frames,    \* SpecRelay: frames the relay has yielded, in order
    pc,        \* SpecServer: position of each request's task
    holder,    \* SpecServer: request whose blocking call holds the event loop (0: none)
    upload,    \* SpecServer: per request, the bytes of the file it uploads
    sent,      \* SpecServer: per request, the number of frames its relay has yielded
    seen       \* SpecServer: per request, what its last command printed

vars == <<fs, last, run, events, frames, pc, holder, upload, sent, seen>>

---------------------------------------------------------------------------
(* Bounds of the model *)

\* longest candidate path (in components) handed to validate_path
MaxPathLen == 3

\* most events before the result event in one run of the relay
MaxEvents == 3

\* most frames one request's relay yields before its final frame (SpecServer)
MaxFrames == 1

---------------------------------------------------------------------------
(* Directory layout: main.py lines 28-30 *)

\* Path(__file__).parent
BackendDir == <<"app">>

AGENT_WORKSPACE_DIR == BackendDir \o <<"agent_workspace">>

SKILLS_DIR == BackendDir \o <<"skills">>

\* a directory outside both roots, and a file in it
EtcDir == <<"etc">>

\* a sibling of the workspace whose name starts with the workspace's name
EvilDir == BackendDir \o <<"agent_workspace-evil">>

\* the roots handed to validate_path by read_file (line 135)
ReadRoots == <<AGENT_WORKSPACE_DIR, SKILLS_DIR>>

\* mutant: write_file and edit_file validate against both roots, as read_file does
WriteRoots_AsRead == <<AGENT_WORKSPACE_DIR, SKILLS_DIR>>

\* the roots handed to validate_path by write_file and edit_file (lines 146, 158)
WriteRoots == <<AGENT_WORKSPACE_DIR>>

---------------------------------------------------------------------------
(* Filesystem nodes *)

DirNode == [k |-> "dir", data |-> <<>>, to |-> <<>>]

FileNode(bytes) == [k |-> "file", data |-> bytes, to |-> <<>>]

LinkNode(target) == [k |-> "link", data |-> <<>>, to |-> target]

IsDir(f, x) == x \in DOMAIN f /\ f[x].k = "dir"

IsFile(f, x) == x \in DOMAIN f /\ f[x].k = "file"

IsLink(f, x) == x \in DOMAIN f /\ f[x].k = "link"

Parent(x) == IF x = <<>> THEN <<>> ELSE SubSeq(x, 1, Len(x) - 1)

Prefixes(x) == {SubSeq(x, 1, n) : n \in 0..Len(x)}

\* some proper ancestor of x exists and is a regular file
AncestorIsFile(f, x) == \E a \in Prefixes(x) : a # x /\ IsFile(f, a)

Put(f, x, node) == [y \in DOMAIN f \cup {x} |-> IF y = x THEN node ELSE f[y]]

\* the filesystem when the server starts: the workspace exists (line 29),
\* the skills directory holds reference material, /etc/passwd is outside
InitFS ==
    (<<>> :> DirNode)
    @@ (BackendDir :> DirNode)
    @@ (AGENT_WORKSPACE_DIR :> DirNode)
    @@ (SKILLS_DIR :> DirNode)
    @@ (SKILLS_DIR \o <<"f">> :> FileNode(<<"b">>))
    @@ (EtcDir :> DirNode)
    @@ (EtcDir \o <<"passwd">> :> FileNode(<<"b", "b">>))

---------------------------------------------------------------------------
(* pathlib: Path.resolve(), PurePath.relative_to(), the / operator *)

\* Path.resolve() (strict=False) of the absolute path with components
\* comps: left to right from `cur`, ".." drops the last resolved component
\* (the root is its own parent), a symbolic link is replaced by its target,
\* and a component that does not exist is kept as written.  Link targets
\* are canonical in this model (see ShellStep), so one replacement resolves.
RECURSIVE ResolveFrom(_, _, _)
ResolveFrom(f, cur, comps) ==
    IF comps = <<>> THEN cur
    ELSE LET c == Head(comps)
             cand == Append(cur, c)
             nxt == IF c = ".." THEN Parent(cur)
                    ELSE IF IsLink(f, cand) THEN f[cand].to
                    ELSE cand
         IN ResolveFrom(f, nxt, Tail(comps))

Resolve(f, comps) == ResolveFrom(f, <<>>, comps)

\* the name a is a string prefix of the name b
NamePrefix(a, b) == a = b \/ (a = "agent_workspace" /\ b = "agent_workspace-evil")

\* mutant: containment by str(path).startswith(str(base))
RelativeTo_StringPrefix(path, base) ==
    /\ Len(base) <= Len(path)
    /\ \A i \in 1..Len(base) :
           IF i < Len(base) THEN path[i] = base[i] ELSE NamePrefix(base[i], path[i])

\* path.relative_to(base) does not raise: base is a component-wise prefix
RelativeTo(path, base) ==
    Len(base) <= Len(path) /\ SubSeq(path, 1, Len(base)) = base

\* base / relative_path: an absolute right operand replaces the left one
Join(base, p) == IF p.abs THEN p.comps ELSE base \o p.comps

InSomeRoot(x, roots) == \E i \in 1..Len(roots) : RelativeTo(x, roots[i])

---------------------------------------------------------------------------
(* validate_path: main.py lines 92-127 *)

\* mutant: the loop over the roots stops after the first root
FirstAccepting_OnlyFirst(f, p, roots, i) ==
    IF RelativeTo(Resolve(f, Join(roots[1], p)), roots[1]) THEN 1 ELSE 0

\* lines 103-110: the index of the first root that contains the candidate
\* joined onto it and resolved; 0 when no root does
RECURSIVE FirstAccepting(_, _, _, _)
FirstAccepting(f, p, roots, i) ==
    IF i > Len(roots) THEN 0
    ELSE IF RelativeTo(Resolve(f, Join(roots[i], p)), roots[i]) THEN i
    ELSE FirstAccepting(f, p, roots, i + 1)

\* mutant: the candidate is joined onto the first root and never resolved
ResolvedPath_Unresolved(f, p, roots) == Join(roots[1], p)

\* lines 98-113: resolved_path
ResolvedPath(f, p, roots) ==
    IF p.abs THEN Resolve(f, p.comps)
    ELSE LET i == FirstAccepting(f, p, roots, 1)
         IN IF i # 0 THEN Resolve(f, Join(roots[i], p))
            ELSE Resolve(f, Join(roots[1], p))

\* lines 115-123: the containment check on resolved_path; ok = FALSE is the
\* ValueError "Path ... is outside allowed directories"
validate_path(f, p, roots) ==
    LET x == ResolvedPath(f, p, roots)
    IN IF InSomeRoot(x, roots) THEN [ok |-> TRUE, path |-> x]
       ELSE [ok |-> FALSE, path |-> <<>>]

---------------------------------------------------------------------------
(* What a tool call hands back to the Agent Runtime: a string (t = "str")  *)
(* or an exception that leaves the tool function (t = "raise").  kind      *)
(* names the string's fixed text; the other fields are what is formatted   *)
(* into it.                                                                *)

Str(kind) ==
    [t |-> "str", kind |-> kind, text |-> <<>>, at |-> <<>>,
     rc |-> 0, out |-> <<>>, err |-> <<>>]

Raise(exc) ==
    [t |-> "raise", kind |-> exc, text |-> <<>>, at |-> <<>>,
     rc |-> 0, out |-> <<>>, err |-> <<>>]

\* the strings that start with "Error:" (lines 138, 140, 152, 164, 166, 182)
ErrorKinds ==
    {"Error: File not found", "Error: Path is outside allowed directories",
     "Error: codec can't decode", "Error: codec can't encode",
     "Error: Command timed out (exceeded 30 seconds)"}

StartsWithError(r) == r.t = "str" /\ r.kind \in ErrorKinds

---------------------------------------------------------------------------
(* pathlib file operations used by the tools *)

HasBad(bytes) == \E i \in 1..Len(bytes) : bytes[i] = "BAD"

\* text-mode reading (newline=None): "\r\n" and a lone "\r" become "\n"
RECURSIVE UniversalNewlines(_)
UniversalNewlines(s) ==
    IF s = <<>> THEN <<>>
    ELSE IF Head(s) = "CR"
         THEN IF Len(s) >= 2 /\ s[2] = "LF"
              THEN <<"LF">> \o UniversalNewlines(SubSeq(s, 3, Len(s)))
              ELSE <<"LF">> \o UniversalNewlines(Tail(s))
         ELSE <<Head(s)>> \o UniversalNewlines(Tail(s))

\* Path.read_text() of the canonical path x
read_text(f, x) ==
    IF AncestorIsFile(f, x) THEN [exc |-> "NotADirectoryError", text |-> <<>>]
    ELSE IF x \notin DOMAIN f THEN [exc |-> "FileNotFoundError", text |-> <<>>]
    ELSE IF IsDir(f, x) THEN [exc |-> "IsADirectoryError", text |-> <<>>]
    ELSE IF HasBad(f[x].data) THEN [exc |-> "UnicodeDecodeError", text |-> <<>>]
    ELSE [exc |-> "none", text |-> UniversalNewlines(f[x].data)]

\* text-mode writing on POSIX: "\n" is written as os.linesep = "\n", every
\* other character as itself
EncodeText(s) == s

\* the text holds a code point UTF-8 cannot encode
HasSurrogate(s) == \E i \in 1..Len(s) : s[i] = "SUR"

\* Path.write_text(content) of the canonical path x: open(x, "w") creates
\* or empties the file, then the text is encoded and written; a text that
\* cannot be encoded raises UnicodeEncodeError with the file left empty
write_text(f, x, content) ==
    IF AncestorIsFile(f, x) THEN [exc |-> "NotADirectoryError", fs |-> f]
    ELSE IF ~IsDir(f, Parent(x)) THEN [exc |-> "FileNotFoundError", fs |-> f]
    ELSE IF IsDir(f, x) THEN [exc |-> "IsADirectoryError", fs |-> f]
    ELSE IF HasSurrogate(content)
    THEN [exc |-> "UnicodeEncodeError", fs |-> Put(f, x, FileNode(<<>>))]
    ELSE [exc |-> "none", fs |-> Put(f, x, FileNode(EncodeText(content)))]

\* Path.mkdir(parents=True, exist_ok=True) of the canonical path d
mkdir_parents(f, d) ==
    IF AncestorIsFile(f, d) THEN [exc |-> "NotADirectoryError", fs |-> f]
    ELSE IF IsFile(f, d) THEN [exc |-> "FileExistsError", fs |-> f]
    ELSE [exc |-> "none",
          fs |-> [y \in DOMAIN f \cup Prefixes(d) |->
                    IF y \in DOMAIN f THEN f[y] ELSE DirNode]]

\* str.replace(old, new): every non-overlapping occurrence, left to right;
\* an empty old matches before every character and at the end
RECURSIVE Replace(_, _, _)
Replace(s, old, new) ==
    IF old = <<>>
    THEN IF s = <<>> THEN new ELSE new \o <<Head(s)>> \o Replace(Tail(s), old, new)
    ELSE IF Len(s) < Len(old) THEN s
    ELSE IF SubSeq(s, 1, Len(old)) = old
         THEN new \o Replace(SubSeq(s, Len(old) + 1, Len(s)), old, new)
         ELSE <<Head(s)>> \o Replace(Tail(s), old, new)

---------------------------------------------------------------------------
(* The file tools: main.py lines 131-166.  Each yields the value handed    *)
(* back (ret) and the filesystem it leaves (fs).                           *)

\* lines 131-140
read_file(f, p) ==
    LET v == validate_path(f, p, ReadRoots)
        r == read_text(f, v.path)
    IN IF ~v.ok
       THEN [ret |-> Str("Error: Path is outside allowed directories"), fs |-> f]
       ELSE IF r.exc = "none"
       THEN [ret |-> [Str("content") EXCEPT !.text = r.text], fs |-> f]
       ELSE IF r.exc = "FileNotFoundError"
       THEN [ret |-> Str("Error: File not found"), fs |-> f]
       ELSE IF r.exc = "UnicodeDecodeError"   \* a ValueError: line 139
       THEN [ret |-> Str("Error: codec can't decode"), fs |-> f]
       ELSE [ret |-> Raise(r.exc), fs |-> f]

\* lines 142-152
write_file(f, p, content) ==
    LET v == validate_path(f, p, WriteRoots)
        m == mkdir_parents(f, Parent(v.path))
        w == write_text(m.fs, v.path, content)
    IN IF ~v.ok
       THEN [ret |-> Str("Error: Path is outside allowed directories"), fs |-> f]
       ELSE IF m.exc # "none" THEN [ret |-> Raise(m.exc), fs |-> m.fs]
       ELSE IF w.exc = "UnicodeEncodeError"   \* a ValueError: line 151
       THEN [ret |-> Str("Error: codec can't encode"), fs |-> w.fs]
       ELSE IF w.exc # "none" THEN [ret |-> Raise(w.exc), fs |-> w.fs]
       ELSE [ret |-> [Str("Successfully wrote to") EXCEPT !.at = v.path],
             fs |-> w.fs]

\* lines 154-166
edit_file(f, p, old_str, new_str) ==
    LET v == validate_path(f, p, WriteRoots)
        r == read_text(f, v.path)
        w == write_text(f, v.path, Replace(r.text, old_str, new_str))
    IN IF ~v.ok
       THEN [ret |-> Str("Error: Path is outside allowed directories"), fs |-> f]
       ELSE IF r.exc = "FileNotFoundError"
       THEN [ret |-> Str("Error: File not found"), fs |-> f]
       ELSE IF r.exc = "UnicodeDecodeError"
       THEN [ret |-> Str("Error: codec can't decode"), fs |-> f]
       ELSE IF r.exc # "none" THEN [ret |-> Raise(r.exc), fs |-> f]
       ELSE IF w.exc = "UnicodeEncodeError"   \* a ValueError: line 165
       THEN [ret |-> Str("Error: codec can't encode"), fs |-> w.fs]
       ELSE IF w.exc # "none" THEN [ret |-> Raise(w.exc), fs |-> w.fs]
       ELSE [ret |-> [Str("Updated") EXCEPT !.at = v.path], fs |-> w.fs]

---------------------------------------------------------------------------
(* The shell run by subprocess.run(command, shell=True, ...): lines 172-179 *)
(* A command string is a list of steps joined by "&&".                     *)

NoPath == [abs |-> FALSE, comps |-> <<>>]

Rel(comps) == [abs |-> FALSE, comps |-> comps]

Abs(comps) == [abs |-> TRUE, comps |-> comps]

Pwd == [op |-> "pwd", p |-> NoPath, data |-> <<>>, to |-> <<>>, secs |-> 0]

Cd(p) == [op |-> "cd", p |-> p, data |-> <<>>, to |-> <<>>, secs |-> 0]

\* printf data > p
PrintTo(data, p) == [op |-> "print_to", p |-> p, data |-> data, to |-> <<>>, secs |-> 0]

Cat(p) == [op |-> "cat", p |-> p, data |-> <<>>, to |-> <<>>, secs |-> 0]

\* ln -s target p, target an absolute canonical path
LnS(target, p) == [op |-> "ln", p |-> p, data |-> <<>>, to |-> target, secs |-> 0]

Sleep(n) == [op |-> "sleep", p |-> NoPath, data |-> <<>>, to |-> <<>>, secs |-> n]

\* timeout=30: line 178
TIMEOUT == 30

\* mutant: cwd= is not passed, the shell starts in the server's own directory
ShellStart_NoCwd(f) ==
    [fs |-> f, cwd |-> BackendDir, out |-> <<>>, err |-> <<>>,
     rc |-> 0, elapsed |-> 0, timeout |-> FALSE, ran |-> <<>>]

\* the shell when it starts: cwd=str(AGENT_WORKSPACE_DIR), line 177.
\* ran lists, for every step run, the directory it ran in.
ShellStart(f) ==
    [fs |-> f, cwd |-> AGENT_WORKSPACE_DIR, out |-> <<>>, err |-> <<>>,
     rc |-> 0, elapsed |-> 0, timeout |-> FALSE, ran |-> <<>>]

Fail(sh) == [sh EXCEPT !.rc = 1, !.err = Append(@, "failed")]

\* one step of the command, run by the shell in its current directory
ShellStep(sh0, step) ==
    LET sh == [sh0 EXCEPT !.ran = Append(@, [op |-> step.op, cwd |-> sh0.cwd])]
        t == Resolve(sh.fs, Join(sh.cwd, step.p))
        \* where ln makes the link: the last component is not followed
        l == Append(Resolve(sh.fs, Join(sh.cwd, [step.p EXCEPT !.comps = Parent(@)])),
                    step.p.comps[Len(step.p.comps)])
    IN CASE step.op = "pwd" ->
              [sh EXCEPT !.out = Append(@, [k |-> "path", path |-> sh.cwd, data |-> <<>>])]
         [] step.op = "cd" ->
              IF IsDir(sh.fs, t) THEN [sh EXCEPT !.cwd = t] ELSE Fail(sh)
         [] step.op = "print_to" ->
              IF IsDir(sh.fs, Parent(t)) /\ ~IsDir(sh.fs, t)
              THEN [sh EXCEPT !.fs = Put(@, t, FileNode(step.data))]
              ELSE Fail(sh)
         [] step.op = "cat" ->
              IF IsFile(sh.fs, t)
              THEN [sh EXCEPT !.out = Append(@, [k |-> "bytes", path |-> <<>>,
                                                 data |-> sh.fs[t].data])]
              ELSE Fail(sh)
         [] step.op = "ln" ->
              IF l \notin DOMAIN sh.fs /\ IsDir(sh.fs, Parent(l))
              THEN [sh EXCEPT !.fs = Put(@, l, LinkNode(step.to))]
              ELSE Fail(sh)
         [] step.op = "sleep" ->
              IF sh.elapsed + step.secs >= TIMEOUT
              THEN [sh EXCEPT !.timeout = TRUE, !.elapsed = TIMEOUT]
              ELSE [sh EXCEPT !.elapsed = @ + step.secs]

\* "&&": the next step runs only when the one before it succeeded; the
\* child is killed when the timeout expires
RECURSIVE ShellRun(_, _)
ShellRun(sh, steps) ==
    IF steps = <<>> \/ sh.rc # 0 \/ sh.timeout THEN sh
    ELSE ShellRun(ShellStep(sh, Head(steps)), Tail(steps))

\* text=True: the captured output is decoded, strictly
Undecodable(out) == \E i \in 1..Len(out) : HasBad(out[i].data)

\* subprocess.run(...), lines 172-179.  launch is the operating system's
\* answer to starting the shell: "ok", or "OSError" when it cannot start.
subprocess_run(f, command, launch) ==
    LET sh == ShellRun(ShellStart(f), command)
    IN IF launch # "ok" THEN [exc |-> "OSError", sh |-> ShellStart(f)]
       ELSE IF sh.timeout THEN [exc |-> "TimeoutExpired", sh |-> sh]
       ELSE IF Undecodable(sh.out) THEN [exc |-> "UnicodeDecodeError", sh |-> sh]
       ELSE [exc |-> "none", sh |-> sh]

\* lines 168-184
execute_command(f, command, launch) ==
    LET r == subprocess_run(f, command, launch)
    IN [ret |-> IF r.exc = "none"
                THEN [Str("Exit Code: / Output: / Error:") EXCEPT
                        !.rc = r.sh.rc, !.out = r.sh.out, !.err = r.sh.err]
                ELSE IF r.exc = "TimeoutExpired"
                THEN Str("Error: Command timed out (exceeded 30 seconds)")
                ELSE Str("Error executing command"),
        fs |-> r.sh.fs,
        ran |-> r.sh.ran,
        timedout |-> r.sh.timeout]

---------------------------------------------------------------------------
(* Inputs the Agent Runtime hands to the tools *)

F == <<"f">>

\* candidate paths of write_file and edit_file calls
WritePaths ==
    {Rel(F), Rel(<<"d", "f">>), Rel(<<>>), Rel(<<"f", "f">>),
     Rel(<<"..", "skills", "f">>), Rel(<<"..", "..", "etc", "passwd">>),
     Abs(SKILLS_DIR \o F)}

\* candidate paths of read_file calls
ReadPaths ==
    WritePaths \cup {Rel(<<"l", "passwd">>), Abs(EtcDir \o <<"passwd">>)}

\* content arguments of write_file
Contents == {<<"a">>, <<"a", "CR", "LF">>, <<"a", "b", "a">>}

\* (old_str, new_str) arguments of edit_file
Edits == {<<<<"a">>, <<"b">>>>}

\* command strings of execute_command
Commands ==
    {<<Pwd>>,
     <<Cd(Abs(<<>>)), Pwd>>,                               \* cd / && pwd
     <<Sleep(5), Pwd>>,
     <<Sleep(35), Pwd>>,
     <<PrintTo(<<"a">>, Rel(<<"..", "skills", "f">>))>>,   \* printf a > ../skills/f
     <<PrintTo(<<"BAD">>, Rel(F)), Cat(Rel(F))>>,          \* binary output
     <<Cat(Rel(F))>>,
     <<LnS(EtcDir, Rel(<<"l">>))>>}                        \* ln -s /etc l

Launches == {"ok", "OSError"}

\* the record kept of a tool call
Call(tool) ==
    [tool |-> tool, p |-> NoPath, content |-> <<>>, old |-> <<>>, new |-> <<>>,
     cmd |-> <<>>, launch |-> "ok", roots |-> <<>>, ret |-> Str(""), ran |-> <<>>,
     timedout |-> FALSE]

---------------------------------------------------------------------------
(* Spec: one agent calling the tools *)

RelayIdle == /\ run = "Idle" /\ events = <<>> /\ frames = <<>>

ServerIdle == /\ pc = <<>> /\ holder = 0 /\ upload = <<>> /\ sent = <<>> /\ seen = <<>>

Init ==
    /\ fs = InitFS
    /\ last = Call("none")
    /\ RelayIdle
    /\ ServerIdle

ReadFile(p) ==
    LET r == read_file(fs, p)
    IN /\ fs' = r.fs
       /\ last' = [Call("read_file") EXCEPT !.p = p, !.ret = r.ret]
       /\ UNCHANGED <<run, events, frames, pc, holder, upload, sent, seen>>

WriteFile(p, content) ==
    LET r == write_file(fs, p, content)
    IN /\ fs' = r.fs
       /\ last' = [Call("write_file") EXCEPT !.p = p, !.content = content, !.ret = r.ret]
       /\ UNCHANGED <<run, events, frames, pc, holder, upload, sent, seen>>

EditFile(p, old_str, new_str) ==
    LET r == edit_file(fs, p, old_str, new_str)
    IN /\ fs' = r.fs
       /\ last' = [Call("edit_file") EXCEPT !.p = p, !.old = old_str, !.new = new_str,
                                             !.ret = r.ret]
       /\ UNCHANGED <<run, events, frames, pc, holder, upload, sent, seen>>

ExecuteCommand(command, launch) ==
    LET r == execute_command(fs, command, launch)
    IN /\ fs' = r.fs
       /\ last' = [Call("execute_command") EXCEPT !.cmd = command, !.launch = launch,
                     !.ret = r.ret, !.ran = r.ran, !.timedout = r.timedout]
       /\ UNCHANGED <<run, events, frames, pc, holder, upload, sent, seen>>

Next ==
    \/ \E p \in ReadPaths : ReadFile(p)
    \/ \E p \in WritePaths, c \in Contents : WriteFile(p, c)
    \/ \E p \in WritePaths, e \in Edits : EditFile(p, e[1], e[2])
    \/ \E c \in Commands, l \in Launches : ExecuteCommand(c, l)

Spec == Init /\ [][Next]_vars

---------------------------------------------------------------------------
(* SpecValidate: validate_path, a pure function of the filesystem, applied *)
(* to every candidate path of at most MaxPathLen components, on the        *)
(* filesystems the agent can make by adding a symbolic link to the         *)
(* workspace.                                                              *)

Comps == {"..", "app", "agent_workspace", "agent_workspace-evil", "skills", "etc", "f", "l"}

SeqsUpTo(S, n) == UNION {[1..k -> S] : k \in 0..n}

AllPaths == {[abs |-> b, comps |-> c] : b \in BOOLEAN, c \in SeqsUpTo(Comps, MaxPathLen)}

ValidatePaths == AllPaths \cup ReadPaths

\* ln -s <target> l, run in the workspace
LinkCommands ==
    {<<LnS(EtcDir, Rel(<<"l">>))>>,
     <<LnS(SKILLS_DIR, Rel(<<"l">>))>>,
     <<LnS(SKILLS_DIR \o <<"d", "d">>, Rel(<<"l">>))>>}

\* the filesystems of SpecValidate: as the server starts, or after one of
\* the link commands was run through execute_command
LinkedFS == {InitFS} \cup {execute_command(InitFS, c, "ok").fs : c \in LinkCommands}

\* a call of validate_path(p, roots) about to be made, by read_file
\* (ReadRoots) or by write_file and edit_file (WriteRoots)
InitValidate ==
    /\ fs \in LinkedFS
    /\ \E p \in ValidatePaths, roots \in {ReadRoots, WriteRoots} :
           last = [Call("call validate_path") EXCEPT !.p = p, !.roots = roots]
    /\ RelayIdle
    /\ ServerIdle

\* validate_path(p, roots); ret is the path returned, or the ValueError
Validate ==
    LET v == validate_path(fs, last.p, last.roots)
    IN /\ last.tool = "call validate_path"
       /\ last' = [last EXCEPT !.tool = "validate_path",
                     !.ret = IF v.ok THEN [Str("path") EXCEPT !.at = v.path]
                             ELSE Raise("ValueError")]
       /\ UNCHANGED <<fs, run, events, frames, pc, holder, upload, sent, seen>>

NextValidate == Validate

SpecValidate == InitValidate /\ [][NextValidate]_vars

---------------------------------------------------------------------------
(* SpecSandbox: one call of a file tool, on every candidate path of at     *)
(* most MaxPathLen components, on the filesystems of SpecValidate.         *)

FileTools == {"read_file", "write_file", "edit_file"}

\* the texts a sandbox call writes: plain text, and text that holds a lone
\* surrogate (the JSON escape "\udc80" in the tool call's arguments)
SandboxTexts == {<<"a">>, <<"a", "SUR">>}

\* a call of a file tool about to be made; edit_file replaces b by the
\* text, write_file writes the text
InitSandbox ==
    /\ fs \in LinkedFS
    /\ \E p \in ValidatePaths, t \in {"call read_file", "call write_file", "call edit_file"},
          c \in SandboxTexts :
           last = [Call(t) EXCEPT !.p = p, !.content = c,
                                  !.old = <<"b">>, !.new = c]
    /\ RelayIdle
    /\ ServerIdle

CallReadFile ==
    LET r == read_file(fs, last.p)
    IN /\ last.tool = "call read_file"
       /\ fs' = r.fs
       /\ last' = [last EXCEPT !.tool = "read_file", !.ret = r.ret]
       /\ UNCHANGED <<run, events, frames, pc, holder, upload, sent, seen>>

CallWriteFile ==
    LET r == write_file(fs, last.p, last.content)
    IN /\ last.tool = "call write_file"
       /\ fs' = r.fs
       /\ last' = [last EXCEPT !.tool = "write_file", !.ret = r.ret]
       /\ UNCHANGED <<run, events, frames, pc, holder, upload, sent, seen>>

CallEditFile ==
    LET r == edit_file(fs, last.p, last.old, last.new)
    IN /\ last.tool = "call edit_file"
       /\ fs' = r.fs
       /\ last' = [last EXCEPT !.tool = "edit_file", !.ret = r.ret]
       /\ UNCHANGED <<run, events, frames, pc, holder, upload, sent, seen>>

NextSandbox == CallReadFile \/ CallWriteFile \/ CallEditFile

SpecSandbox == InitSandbox /\ [][NextSandbox]_vars

---------------------------------------------------------------------------
(* The relay: chat.event_generator, main.py lines 217-249 *)

\* an event of agent.run_stream_events: its class name, and the attributes
\* the relay reads.  "None" is an attribute that is missing or None, "x" a
\* string, "obj" an object that is not a string; has_content tells whether
\* event.delta has an attribute named content.
Event(cls) ==
    [cls |-> cls, has_content |-> FALSE, content |-> "None", tool_name |-> "None",
     args |-> "None", output |-> "None", history |-> <<>>]

\* the events a run may yield before its result
StreamEvents ==
    {[Event("PartDeltaEvent") EXCEPT !.has_content = TRUE, !.content = "x"],
     [Event("PartDeltaEvent") EXCEPT !.content = "x"],     \* delta.content_delta only
     [Event("FunctionToolCallEvent") EXCEPT !.tool_name = "write_file", !.args = "args"],
     [Event("FunctionToolResultEvent") EXCEPT !.tool_name = "write_file", !.content = "x"],
     [Event("FunctionToolResultEvent") EXCEPT !.tool_name = "write_file", !.content = "obj"],
     [Event("PartStartEvent") EXCEPT !.content = "x"],
     [Event("PartStartEvent") EXCEPT !.tool_name = "write_file"],
     [Event("PartEndEvent") EXCEPT !.content = "x"],
     Event("FinalResultEvent")}

\* the result event: the last item of the stream
ResultEvents ==
    {[Event("AgentRunResultEvent") EXCEPT !.output = "done", !.history = <<"m1", "m2">>]}

\* str(value): a string is itself; None and any other object give the
\* string that spells them
StrOf(v) ==
    CASE v = "None" -> "'None'"
      [] v = "obj" -> "'obj'"
      [] OTHER -> v

\* a frame: the JSON object of one "data: ..." line; keys are the keys it has
Frame(type, keys) ==
    [type |-> type, keys |-> keys \cup {"type"}, content |-> "None",
     tool_name |-> "None", args |-> "None", new_history |-> <<>>, event |-> "None"]

\* mutant: the FinalResultEvent marker is taken for the run's result too
MapEvent_FinalByName(ev) ==
    IF ev.cls \in {"AgentRunResultEvent", "FinalResultEvent"}
    THEN <<[Frame("final", {"content", "new_history"}) EXCEPT !.content = ev.output]>>
    ELSE <<[Frame("event", {"event"}) EXCEPT !.event = ev.cls]>>

\* lines 223-249: the frames yielded for one event
MapEvent(ev) ==
    CASE ev.cls = "AgentRunResultEvent" ->
           <<[Frame("final", {"content", "new_history"}) EXCEPT
                !.content = ev.output, !.new_history = <<>>]>>
      [] ev.cls = "PartDeltaEvent" ->
           IF ev.has_content
           THEN <<[Frame("delta", {"content"}) EXCEPT !.content = ev.content]>>
           ELSE <<>>
      [] ev.cls = "FunctionToolCallEvent" ->
           <<[Frame("tool_call", {"tool_name", "args"}) EXCEPT
                !.tool_name = ev.tool_name, !.args = ev.args]>>
      [] ev.cls = "FunctionToolResultEvent" ->
           <<[Frame("tool_result", {"tool_name", "content"}) EXCEPT
                !.tool_name = ev.tool_name, !.content = StrOf(ev.content)]>>
      [] ev.cls = "PartStartEvent" ->
           <<[Frame("part_start", {"content", "tool_name"}) EXCEPT
                !.content = ev.content, !.tool_name = ev.tool_name]>>
      [] ev.cls = "PartEndEvent" ->
           <<[Frame("part_end", {"content", "tool_name"}) EXCEPT
                !.content = ev.content, !.tool_name = ev.tool_name]>>
      [] OTHER ->
           <<[Frame("event", {"event"}) EXCEPT !.event = ev.cls]>>

ToolsIdle == /\ fs = InitFS /\ last = Call("none")

InitRelay ==
    /\ RelayIdle
    /\ ToolsIdle
    /\ ServerIdle

\* line 251 and 217-219: the response starts to iterate event_generator,
\* which starts the run
RelayStart ==
    /\ run = "Idle"
    /\ run' = "Running"
    /\ UNCHANGED <<fs, last, events, frames, pc, holder, upload, sent, seen>>

\* the class names the branches of lines 225-243 test for
KnownClasses ==
    {"AgentRunResultEvent", "PartDeltaEvent", "FunctionToolCallEvent",
     "FunctionToolResultEvent", "PartStartEvent", "PartEndEvent"}

\* mutant: there is no else branch; an event of no known class ends the relay
Receive_AbortsOnUnknown(ev) ==
    /\ run = "Running"
    /\ Len(events) < MaxEvents
    /\ events' = Append(events, ev)
    /\ frames' = IF ev.cls \in KnownClasses THEN frames \o MapEvent(ev) ELSE frames
    /\ run' = IF ev.cls \in KnownClasses THEN run ELSE "Failed"
    /\ UNCHANGED <<fs, last, pc, holder, upload, sent, seen>>

\* one turn of the loop at line 219 for an event that is not the result
Receive(ev) ==
    /\ run = "Running"
    /\ Len(events) < MaxEvents
    /\ events' = Append(events, ev)
    /\ frames' = frames \o MapEvent(ev)
    /\ UNCHANGED <<fs, last, run, pc, holder, upload, sent, seen>>

\* the turn of the loop for the run's result, which run_stream_events yields
\* once, as the last item: the loop, and the generator, then end
ReceiveResult(ev) ==
    /\ run = "Running"
    /\ events' = Append(events, ev)
    /\ frames' = frames \o MapEvent(ev)
    /\ run' = "Completed"
    /\ UNCHANGED <<fs, last, pc, holder, upload, sent, seen>>

\* run_stream_events raises (a model error, an exception a tool let out):
\* nothing catches it in event_generator, the stream ends
RunFails ==
    /\ run = "Running"
    /\ run' = "Failed"
    /\ UNCHANGED <<fs, last, events, frames, pc, holder, upload, sent, seen>>

NextRelay ==
    \/ RelayStart
    \/ \E ev \in StreamEvents : Receive(ev)
    \/ \E ev \in ResultEvents : ReceiveResult(ev)
    \/ RunFails

SpecRelay == InitRelay /\ [][NextRelay]_vars

---------------------------------------------------------------------------
(* SpecServer: concurrent /chat requests, main.py lines 196-251.  Every    *)
(* handler, relay and tool is a coroutine (async def) on the server's one  *)
(* asyncio event loop: a coroutine runs until it awaits, and a call that   *)
(* blocks without awaiting keeps the loop, so no other coroutine runs      *)
(* until it returns.                                                       *)

Reqs == {1, 2}

\* the file a request uploads; <<>> is a request without a file
UploadOf(r) == IF r = 1 THEN <<"a">> ELSE <<"b">>

\* line 210
AudioPath == AGENT_WORKSPACE_DIR \o <<"uploaded_audio.mp3">>

ServerCommands == {<<Sleep(35)>>, <<Cat(Rel(<<"uploaded_audio.mp3">>))>>}

InitServer ==
    /\ pc = [r \in Reqs |-> "idle"]
    /\ holder = 0
    /\ upload = [r \in Reqs |-> <<>>]
    /\ sent = [r \in Reqs |-> 0]
    /\ seen = [r \in Reqs |-> Str("")]
    /\ ToolsIdle
    /\ RelayIdle

\* lines 197-208: the request arrives; with a file the handler awaits file.read()
Arrive(r, u) ==
    /\ holder = 0
    /\ pc[r] = "idle"
    /\ upload' = [upload EXCEPT ![r] = u]
    /\ pc' = [pc EXCEPT ![r] = IF u = <<>> THEN "streaming" ELSE "reading"]
    /\ UNCHANGED <<fs, last, run, events, frames, holder, sent, seen>>

\* mutant: every request saves its upload under a name of its own
SaveUpload_PerRequest(r) ==
    /\ holder = 0
    /\ pc[r] = "reading"
    /\ fs' = Put(fs, AGENT_WORKSPACE_DIR \o <<IF r = 1 THEN "upload_1.mp3" ELSE "upload_2.mp3">>,
                 FileNode(upload[r]))
    /\ pc' = [pc EXCEPT ![r] = "streaming"]
    /\ UNCHANGED <<last, run, events, frames, holder, upload, sent, seen>>

\* lines 210-212 and 251: the bytes read are written to the fixed file name,
\* and the response starts the relay
SaveUpload(r) ==
    /\ holder = 0
    /\ pc[r] = "reading"
    /\ fs' = Put(fs, AudioPath, FileNode(upload[r]))
    /\ pc' = [pc EXCEPT ![r] = "streaming"]
    /\ UNCHANGED <<last, run, events, frames, holder, upload, sent, seen>>

\* mutant: the relay is started before the upload is read and saved
Emit_WhileReading(r) ==
    /\ holder = 0
    /\ pc[r] \in {"reading", "streaming"}
    /\ sent[r] < MaxFrames
    /\ sent' = [sent EXCEPT ![r] = @ + 1]
    /\ UNCHANGED <<fs, last, run, events, frames, pc, holder, upload, seen>>

\* lines 219-249: the relay of request r receives an event and yields a frame
Emit(r) ==
    /\ holder = 0
    /\ pc[r] = "streaming"
    /\ sent[r] < MaxFrames
    /\ sent' = [sent EXCEPT ![r] = @ + 1]
    /\ UNCHANGED <<fs, last, run, events, frames, pc, holder, upload, seen>>

\* lines 169-172: the run of request r calls execute_command, which calls
\* subprocess.run: the call blocks the thread of the event loop
StartCommand(r, command) ==
    /\ holder = 0
    /\ pc[r] = "streaming"
    /\ holder' = r
    /\ pc' = [pc EXCEPT ![r] = "command"]
    /\ last' = [Call("execute_command") EXCEPT !.cmd = command]
    /\ UNCHANGED <<fs, run, events, frames, upload, sent, seen>>

\* lines 172-184: the command ends or is timed out, subprocess.run returns
\* and execute_command returns its string to the run
FinishCommand(r) ==
    LET res == execute_command(fs, last.cmd, "ok")
    IN /\ holder = r
       /\ pc[r] = "command"
       /\ fs' = res.fs
       /\ seen' = [seen EXCEPT ![r] = res.ret]
       /\ last' = [last EXCEPT !.ret = res.ret, !.ran = res.ran,
                               !.timedout = res.timedout]
       /\ holder' = 0
       /\ pc' = [pc EXCEPT ![r] = "streaming"]
       /\ UNCHANGED <<run, events, frames, upload, sent>>

\* the text the runs write to the file f, and the replacement each run's
\* edit_file makes in it
ServerText == <<"a", "b">>

EditOf(r) == IF r = 1 THEN <<<<"a">>, <<"c">>>> ELSE <<<<"b">>, <<"d">>>>

\* lines 131-140: the run of request r calls read_file; the body has no
\* await, so it runs from its first line to its return in one step
ServerReadFile(r) ==
    LET res == read_file(fs, Rel(F))
    IN /\ holder = 0
       /\ pc[r] = "streaming"
       /\ fs' = res.fs
       /\ seen' = [seen EXCEPT ![r] = res.ret]
       /\ last' = [Call("read_file") EXCEPT !.p = Rel(F), !.ret = res.ret]
       /\ UNCHANGED <<run, events, frames, pc, holder, upload, sent>>

\* lines 142-152: the run of request r calls write_file, in one step
ServerWriteFile(r) ==
    LET res == write_file(fs, Rel(F), ServerText)
    IN /\ holder = 0
       /\ pc[r] = "streaming"
       /\ fs' = res.fs
       /\ seen' = [seen EXCEPT ![r] = res.ret]
       /\ last' = [Call("write_file") EXCEPT !.p = Rel(F), !.content = ServerText,
                                              !.ret = res.ret]
       /\ UNCHANGED <<run, events, frames, pc, holder, upload, sent>>

\* mutant: edit_file is suspended between its read and its write: the text
\* it replaces in is the one the request read earlier, not the file's
ServerEditFile_StaleRead(r) ==
    LET x == AGENT_WORKSPACE_DIR \o F
        stale == IF seen[r].kind = "content" /\ IsFile(fs, x)
                 THEN Put(fs, x, FileNode(seen[r].text)) ELSE fs
        res == edit_file(stale, Rel(F), EditOf(r)[1], EditOf(r)[2])
    IN /\ holder = 0
       /\ pc[r] = "streaming"
       /\ fs' = res.fs
       /\ seen' = [seen EXCEPT ![r] = res.ret]
       /\ last' = [Call("edit_file") EXCEPT !.p = Rel(F), !.old = EditOf(r)[1],
                                             !.new = EditOf(r)[2], !.ret = res.ret]
       /\ UNCHANGED <<run, events, frames, pc, holder, upload, sent>>

\* lines 154-166: the run of request r calls edit_file: read_text, replace
\* and write_text run in one step, with no await between them
ServerEditFile(r) ==
    LET res == edit_file(fs, Rel(F), EditOf(r)[1], EditOf(r)[2])
    IN /\ holder = 0
       /\ pc[r] = "streaming"
       /\ fs' = res.fs
       /\ seen' = [seen EXCEPT ![r] = res.ret]
       /\ last' = [Call("edit_file") EXCEPT !.p = Rel(F), !.old = EditOf(r)[1],
                                             !.new = EditOf(r)[2], !.ret = res.ret]
       /\ UNCHANGED <<run, events, frames, pc, holder, upload, sent>>

\* lines 225-226: the run's result arrives, the final frame is yielded
Finish(r) ==
    /\ holder = 0
    /\ pc[r] = "streaming"
    /\ pc' = [pc EXCEPT ![r] = "done"]
    /\ UNCHANGED <<fs, last, run, events, frames, holder, upload, sent, seen>>

\* the steps request r can take: its handler, its relay, its tools
RequestStep(r) ==
    \/ \E u \in {<<>>, UploadOf(r)} : Arrive(r, u)
    \/ SaveUpload(r)
    \/ Emit(r)
    \/ \E c \in ServerCommands : StartCommand(r, c)
    \/ FinishCommand(r)
    \/ ServerReadFile(r)
    \/ ServerWriteFile(r)
    \/ ServerEditFile(r)
    \/ Finish(r)

NextServer == \E r \in Reqs : RequestStep(r)

SpecServer == InitServer /\ [][NextServer]_vars

---------------------------------------------------------------------------
(* Claims checked under Spec *)

IsCall(tool) == last.tool = tool

\* C4: every Tool Surface function returns a string for every input and
\* every failure, and never lets an exception leave the tool.
C4_ToolsAlwaysReturnString ==
    last.tool \in {"read_file", "write_file", "edit_file", "execute_command"}
        => last.ret.t = "str"

\* C6: execute_command always returns a string: the fixed timeout message,
\* with no captured output, when the command reaches the 30-second limit; a
\* descriptive error string when the command cannot be launched; and the
\* block with exit code, stdout and stderr when the command finished in time.
C6_ExecuteCommandOutcomes ==
    IsCall("execute_command") =>
        /\ last.ret.t = "str"
        /\ last.launch # "ok" => last.ret.kind = "Error executing command"
        /\ (last.launch = "ok" /\ last.timedout) =>
               /\ last.ret.kind = "Error: Command timed out (exceeded 30 seconds)"
               /\ last.ret.out = <<>>
        /\ (last.launch = "ok" /\ ~last.timedout) =>
               last.ret.kind = "Exit Code: / Output: / Error:"

\* the directories the pwd steps of the last command reported
PwdReports == {last.ran[i].cwd : i \in {j \in 1..Len(last.ran) : last.ran[j].op = "pwd"}}

\* C7 as stated: whatever the command string, a pwd run through
\* execute_command reports the workspace root.
C7_PwdAlwaysWorkspace ==
    IsCall("execute_command") => PwdReports \subseteq {AGENT_WORKSPACE_DIR}

\* C7 as amended: every command starts in the workspace root, whatever the
\* commands before it did, so a step that no cd precedes in its own command
\* string runs in the workspace root, and a pwd there prints it.
C7_CommandStartsInWorkspace ==
    IsCall("execute_command") =>
        /\ \A i \in 1..Len(last.ran) :
               (\A j \in 1..(i - 1) : last.ran[j].op # "cd")
                   => last.ran[i].cwd = AGENT_WORKSPACE_DIR
        /\ (last.ret.kind = "Exit Code: / Output: / Error:"
              /\ \A j \in 1..Len(last.cmd) : last.cmd[j].op # "cd")
               => \A i \in 1..Len(last.ret.out) :
                      last.ret.out[i].k = "path"
                          => last.ret.out[i].path = AGENT_WORKSPACE_DIR

\* C7 witness: a pwd after a sleep printed the workspace root
C7_Witness ==
    /\ IsCall("execute_command")
    /\ last.cmd = <<Sleep(5), Pwd>>
    /\ last.ret.kind = "Exit Code: / Output: / Error:"
    /\ last.ret.out = <<[k |-> "path", path |-> AGENT_WORKSPACE_DIR, data |-> <<>>]>>

UnderSkills(f) == {x \in DOMAIN f : RelativeTo(x, SKILLS_DIR)}

\* C8: no sequence of tool calls changes anything under the skills root.
C8_SkillsNeverChange ==
    /\ UnderSkills(fs) = UnderSkills(InitFS)
    /\ \A x \in UnderSkills(InitFS) : fs[x] = InitFS[x]

\* the candidate p, as validate_path resolves it for read_file, lies inside
\* the skills root and outside the workspace
ResolvesInSkills(f, p) ==
    LET x == ResolvedPath(f, p, ReadRoots)
    IN RelativeTo(x, SKILLS_DIR) /\ ~RelativeTo(x, AGENT_WORKSPACE_DIR)

\* C9: for every path that resolves inside the skills root and outside the
\* workspace, read_file returns the content of the (text) file there, and
\* write_file and edit_file return an "Error: ..." string.
C9_SkillsReadableNotWritable ==
    ResolvesInSkills(fs, last.p) =>
        /\ IsCall("read_file") =>
               LET x == ResolvedPath(fs, last.p, ReadRoots)
               IN (IsFile(fs, x) /\ ~HasBad(fs[x].data)) =>
                      /\ last.ret.kind = "content"
                      /\ last.ret.text = UniversalNewlines(fs[x].data)
        /\ (IsCall("write_file") \/ IsCall("edit_file")) => StartsWithError(last.ret)

\* C9 witness: a write to ../skills/f was refused while a read of the same
\* path gives the file's content
C9_Witness ==
    /\ IsCall("write_file")
    /\ last.p = Rel(<<"..", "skills", "f">>)
    /\ StartsWithError(last.ret)
    /\ read_file(fs, last.p).ret.kind = "content"
    /\ StartsWithError(edit_file(fs, Abs(SKILLS_DIR \o F), <<"a">>, <<"b">>).ret)

\* C10: after a write_file that succeeded, a read_file of the same path
\* issued next returns exactly the content written.
C10_WriteThenReadRoundTrip ==
    (IsCall("write_file") /\ last.ret.kind = "Successfully wrote to") =>
        LET r == read_file(fs, last.p).ret
        IN r.kind = "content" /\ r.text = last.content

\* the file a write_file or edit_file call with candidate p works on
Target(f, p) == validate_path(f, p, WriteRoots).path

\* the call about to be recorded works on an existing regular text file
\* inside the workspace
EditsExistingFile ==
    /\ last'.tool = "edit_file"
    /\ validate_path(fs, last'.p, WriteRoots).ok
    /\ IsFile(fs, Target(fs, last'.p))
    /\ ~HasBad(fs[Target(fs, last'.p)].data)

\* C11: edit_file(path, old, new) on an existing workspace file leaves the
\* file holding its previous content with every occurrence of old replaced
\* by new (unchanged when old does not occur), and returns the success
\* confirmation.
C11_EditReplacesEveryOccurrence ==
    [][EditsExistingFile =>
           LET x == Target(fs, last'.p)
           IN /\ last'.ret.kind = "Updated"
              /\ IsFile(fs', x)
              /\ fs'[x].data = Replace(fs[x].data, last'.old, last'.new)]_vars

---------------------------------------------------------------------------
(* Claims checked under SpecValidate *)

\* no "..", and no symbolic link on the way
IsCanonical(f, x) ==
    /\ \A i \in 1..Len(x) : x[i] # ".."
    /\ \A a \in Prefixes(x) : ~IsLink(f, a)

\* the canonical form of p taken from root number i (of p itself when absolute)
CanonicalFrom(f, p, roots, i) == Resolve(f, Join(roots[i], p))

Returned == last.ret.t = "str"

\* C2 as stated: validate_path(p, R) returns a path if and only if the
\* canonical form of p (p taken from the first root, the workspace, when it
\* is relative) equals or is a descendant of some root in R.
C2_ReturnsIffCanonicalInsideRoot ==
    IsCall("validate_path") =>
        (Returned <=> InSomeRoot(CanonicalFrom(fs, last.p, last.roots, 1), last.roots))

\* C2 as amended: validate_path(p, R) returns a path if and only if p joined
\* onto some root of R canonicalizes to that root or a descendant of it, or
\* p joined onto the first root (p itself when absolute) canonicalizes inside
\* some root of R; the path returned is canonical and inside a root of R;
\* otherwise it raises ValueError, as it does for "../../etc/passwd" and for
\* absolute paths outside every root.
C2_ValidatePathContainment ==
    IsCall("validate_path") =>
        LET R == last.roots
            p == last.p
        IN /\ Returned <=>
                \/ \E i \in 1..Len(R) : RelativeTo(CanonicalFrom(fs, p, R, i), R[i])
                \/ InSomeRoot(CanonicalFrom(fs, p, R, 1), R)
           /\ Returned => /\ InSomeRoot(last.ret.at, R)
                          /\ IsCanonical(fs, last.ret.at)
                          /\ \E i \in 1..Len(R) : last.ret.at = CanonicalFrom(fs, p, R, i)
           /\ ~Returned => last.ret.kind = "ValueError"
           /\ p = Rel(<<"..", "..", "etc", "passwd">>) => ~Returned
           /\ (p.abs /\ ~InSomeRoot(Resolve(fs, p.comps), R)) => ~Returned

\* C2 witness: with a link in the workspace that leads outside, the
\* traversal string was refused
C2_Witness ==
    /\ IsCall("validate_path")
    /\ IsLink(fs, AGENT_WORKSPACE_DIR \o <<"l">>)
    /\ last.p = Rel(<<"..", "..", "etc", "passwd">>)
    /\ last.roots = ReadRoots
    /\ last.ret = Raise("ValueError")

\* the roots of R, by index, that contain p joined onto them and canonicalized
Accepting(f, p, R) == {i \in 1..Len(R) : RelativeTo(CanonicalFrom(f, p, R, i), R[i])}

\* the least element of a non-empty set of indices
Least(S) == CHOOSE i \in S : \A j \in S : i <= j

\* C18: for a relative candidate, validate_path returns the candidate joined
\* onto and canonicalized against the first root, in list order, that
\* contains the joined result; when no root contains its own joined result
\* it falls back to the candidate joined onto the first root, returns that
\* when it lies inside some root of the list and rejects it otherwise.
C18_FirstAcceptingRootThenFallback ==
    (IsCall("validate_path") /\ ~last.p.abs) =>
        LET R == last.roots
            p == last.p
            A == Accepting(fs, p, R)
        IN /\ A # {} => /\ Returned
                         /\ last.ret.at = CanonicalFrom(fs, p, R, Least(A))
           /\ (A = {} /\ InSomeRoot(CanonicalFrom(fs, p, R, 1), R)) =>
                  /\ Returned
                  /\ last.ret.at = CanonicalFrom(fs, p, R, 1)
           /\ (A = {} /\ ~InSomeRoot(CanonicalFrom(fs, p, R, 1), R)) =>
                  last.ret = Raise("ValueError")

\* C18 witness: with l -> skills/d/d in the workspace, "l/../.." is inside
\* neither root when joined onto it; the fallback, joined onto the
\* workspace, canonicalizes to the skills root and is returned
C18_Witness ==
    /\ IsCall("validate_path")
    /\ last.p = Rel(<<"l", "..", "..">>)
    /\ last.roots = ReadRoots
    /\ Accepting(fs, last.p, last.roots) = {}
    /\ Returned
    /\ last.ret.at = SKILLS_DIR

---------------------------------------------------------------------------
(* Claims checked under SpecSandbox *)

PathError == "Error: Path is outside allowed directories"

\* p is written as a path inside the workspace: relative or under the
\* workspace root, with no ".."
TextuallyInside(p) ==
    /\ \A i \in 1..Len(p.comps) : p.comps[i] # ".."
    /\ p.abs => RelativeTo(p.comps, AGENT_WORKSPACE_DIR)

\* p, written inside the workspace, leads through a symbolic link to a
\* place outside every allowed root
Escapes(f, p) ==
    /\ TextuallyInside(p)
    /\ ~InSomeRoot(Resolve(f, Join(AGENT_WORKSPACE_DIR, p)), ReadRoots)

\* everything outside the allowed roots is as it was when the server started
OutsideUntouched ==
    \A x \in DOMAIN fs \cup DOMAIN InitFS :
        ~InSomeRoot(x, ReadRoots) => (x \in DOMAIN fs /\ x \in DOMAIN InitFS /\ fs[x] = InitFS[x])

\* the roots the tool of the last call validates against
RootsOf(tool) == IF tool = "read_file" THEN ReadRoots ELSE WriteRoots

\* C19 as stated: a candidate written inside the workspace that passes
\* through a symbolic link to a target outside every allowed root is rejected
\* by validate_path, in read_file, write_file and edit_file alike, and so is
\* a path in a sibling directory whose name starts with a root's name.
C19_EscapingLinkRejected ==
    last.tool \in FileTools =>
        /\ Escapes(fs, last.p) => last.ret.kind = PathError
        /\ RelativeTo(ResolvedPath(fs, last.p, RootsOf(last.tool)), EvilDir)
               => last.ret.kind = PathError
        /\ OutsideUntouched

\* C19 as amended: such a candidate is rejected by validate_path when it is
\* absolute and when the workspace is the only root (write_file,
\* edit_file); under read_file's two roots a relative one is rejected
\* unless, joined onto the skills root, it canonicalizes inside the skills
\* root, and then that path inside the skills root is the one read.  No
\* file tool reads or writes a file outside the allowed roots, and a path
\* that resolves into the sibling directory is rejected.
C19_NoAccessOutsideRoots ==
    last.tool \in FileTools =>
        LET p == last.p
            s == Resolve(fs, Join(SKILLS_DIR, p))
        IN /\ (Escapes(fs, p) /\ (p.abs \/ last.tool # "read_file"))
                  => last.ret.kind = PathError
           /\ (Escapes(fs, p) /\ ~p.abs /\ last.tool = "read_file") =>
                  IF RelativeTo(s, SKILLS_DIR)
                  THEN last.ret = read_file(fs, Abs(s)).ret
                  ELSE last.ret.kind = PathError
           /\ RelativeTo(ResolvedPath(fs, p, RootsOf(last.tool)), EvilDir)
                  => last.ret.kind = PathError
           /\ OutsideUntouched
           /\ (last.tool = "read_file" /\ last.ret.kind = "content") =>
                  \E x \in DOMAIN fs :
                      /\ InSomeRoot(x, ReadRoots)
                      /\ IsFile(fs, x)
                      /\ x \in {CanonicalFrom(fs, p, ReadRoots, i) : i \in 1..2}
                      /\ last.ret.text = UniversalNewlines(fs[x].data)
           /\ last.ret.kind \in {"Successfully wrote to", "Updated"} =>
                  RelativeTo(last.ret.at, AGENT_WORKSPACE_DIR)

\* C19 witness: with l -> /etc in the workspace, edit_file of "l/passwd"
\* was rejected and /etc/passwd is as it was
C19_Witness ==
    /\ last.tool = "edit_file"
    /\ IsLink(fs, AGENT_WORKSPACE_DIR \o <<"l">>)
    /\ last.p = Rel(<<"l", "passwd">>)
    /\ Escapes(fs, last.p)
    /\ last.ret.kind = PathError
    /\ fs[EtcDir \o <<"passwd">>] = InitFS[EtcDir \o <<"passwd">>]

\* C21: whenever write_file or edit_file returns a string starting with
\* "Error:", the call changed nothing on the filesystem: no file was created
\* or modified and no directory was made; edit_file on a missing file
\* reports not-found, and a path violation is reported, with nothing made.
C21_ErrorLeavesFilesystemUnchanged ==
    [][last'.tool \in {"write_file", "edit_file"} =>
           LET v == validate_path(fs, last'.p, WriteRoots)
           IN /\ StartsWithError(last'.ret) => fs' = fs
              /\ ~v.ok => (last'.ret.kind = PathError /\ fs' = fs)
              /\ (last'.tool = "edit_file" /\ v.ok /\ v.path \notin DOMAIN fs
                     /\ ~AncestorIsFile(fs, v.path))
                    => (last'.ret.kind = "Error: File not found" /\ fs' = fs)]_vars

---------------------------------------------------------------------------
(* Claims checked under SpecRelay *)

\* the frame type the mapping table gives for an event
TableType(ev) ==
    CASE ev.cls = "AgentRunResultEvent" -> "final"
      [] ev.cls = "PartDeltaEvent" -> "delta"
      [] ev.cls = "FunctionToolCallEvent" -> "tool_call"
      [] ev.cls = "FunctionToolResultEvent" -> "tool_result"
      [] ev.cls = "PartStartEvent" -> "part_start"
      [] ev.cls = "PartEndEvent" -> "part_end"
      [] OTHER -> "event"

\* C1: the relay emits exactly one frame for every event, in the order of
\* the events: as many frames as events, the i-th frame for the i-th event.
C1_OneFramePerEventInOrder ==
    /\ Len(frames) = Len(events)
    /\ \A i \in 1..Len(events) : frames[i].type = TableType(events[i])

FinalFrames == {i \in 1..Len(frames) : frames[i].type = "final"}

\* C3: in a run that completes exactly one frame of type "final" is
\* written, when the result event is observed, and it is the last frame of
\* the stream: no frame is ever written after a final frame.
C3_FinalFrameOnceAndLast ==
    /\ FinalFrames \subseteq {Len(frames)}
    /\ FinalFrames # {} <=> run = "Completed"
    /\ run = "Completed" =>
           /\ events[Len(events)].cls = "AgentRunResultEvent"
           /\ frames[Len(frames)].content = events[Len(events)].output

\* C3 witness: a completed run of four events whose last frame is the final one
C3_Witness ==
    /\ run = "Completed"
    /\ Len(events) = 4
    /\ Len(frames) = 4
    /\ frames[4].type = "final"
    /\ \E i \in 1..3 : events[i].cls = "FinalResultEvent"

\* the step receives one more event, of no known class
ReceivesUnknown ==
    /\ Len(events') = Len(events) + 1
    /\ events'[Len(events')].cls \notin KnownClasses

\* C12: an event of no known class produces exactly one frame, of type
\* "event", carrying the string form of the event, and the relay goes on
\* with the events that follow.
C12_UnknownEventYieldsEventFrame ==
    [][ReceivesUnknown =>
           /\ frames' = Append(frames, [Frame("event", {"event"}) EXCEPT
                                          !.event = events'[Len(events')].cls])
           /\ run' = "Running"]_vars

\* C12 witness: an unknown event, then a tool call, each with its frame
C12_Witness ==
    /\ Len(events) = 2
    /\ events[1].cls = "FinalResultEvent"
    /\ events[2].cls = "FunctionToolCallEvent"
    /\ Len(frames) = 2
    /\ frames[1].type = "event" /\ frames[1].event = "FinalResultEvent"
    /\ frames[1].keys = {"type", "event"}
    /\ frames[2].type = "tool_call"
    /\ run = "Running"

\* C13: the frame emitted for the result event is {type: "final", content:
\* output, new_history: history}: new_history is the conversation history
\* that results from the run.
C13_FinalFrameCarriesHistory ==
    run = "Completed" =>
        LET fr == frames[Len(frames)]
            ev == events[Len(events)]
        IN /\ fr.type = "final"
           /\ fr.keys = {"type", "content", "new_history"}
           /\ fr.content = ev.output
           /\ fr.new_history = ev.history

\* the frame the mapping table gives for a known event that is not the result
TableFrame(ev) ==
    CASE ev.cls = "PartDeltaEvent" ->
           [Frame("delta", {"content"}) EXCEPT !.content = ev.content]
      [] ev.cls = "FunctionToolCallEvent" ->
           [Frame("tool_call", {"tool_name", "args"}) EXCEPT
              !.tool_name = ev.tool_name, !.args = ev.args]
      [] ev.cls = "FunctionToolResultEvent" ->
           [Frame("tool_result", {"tool_name", "content"}) EXCEPT
              !.tool_name = ev.tool_name,
              !.content = StrOf(ev.content)]
      [] ev.cls \in {"PartStartEvent", "PartEndEvent"} ->
           [Frame(IF ev.cls = "PartStartEvent" THEN "part_start" ELSE "part_end",
                  {"content", "tool_name"}) EXCEPT
              !.content = ev.content, !.tool_name = ev.tool_name]

\* the step receives one more event, of a known class other than the result
ReceivesKnownNonFinal ==
    /\ Len(events') = Len(events) + 1
    /\ events'[Len(events')].cls \in KnownClasses \ {"AgentRunResultEvent"}

\* C14: each known non-final event yields the frame of the mapping table:
\* delta events {type: "delta", content}, tool calls {type: "tool_call",
\* tool_name, args}, tool results {type: "tool_result", tool_name, content
\* as a string}, part starts and ends {type, content, tool_name} with a
\* missing content or tool_name sent as null.
C14_KnownEventsFollowTable ==
    [][ReceivesKnownNonFinal =>
           frames' = Append(frames, TableFrame(events'[Len(events')]))]_vars

\* the frames the mapping table gives for a sequence of events received
\* before the result, one for each, in order
RECURSIVE TableFrames(_)
TableFrames(evs) ==
    IF evs = <<>> THEN <<>>
    ELSE LET ev == Head(evs)
         IN <<IF ev.cls \in KnownClasses THEN TableFrame(ev)
              ELSE [Frame("event", {"event"}) EXCEPT !.event = ev.cls]>>
            \o TableFrames(Tail(evs))

\* C16: when the run loop fails, the relay emits no further frame: the
\* stream holds no error frame and no "final" frame, and its frames are
\* exactly the mappings of the events received before the failure, in order.
C16_FailureEndsStreamSilently ==
    run = "Failed" =>
        /\ \A i \in 1..Len(frames) : frames[i].type \notin {"final", "error"}
        /\ frames = TableFrames(events)

---------------------------------------------------------------------------
(* Claims checked under SpecServer *)

\* request q has begun and has not finished
InFlight(q) == pc[q] \in {"reading", "streaming"}

\* C5: while the execute_command of one request waits for its command to
\* finish or time out, every other request in flight can still take a step
\* (its handler or relay can go on, its tools can run).
C5_OthersProgressDuringCommand ==
    \A r \in Reqs, q \in Reqs :
        (r # q /\ pc[r] = "command" /\ InFlight(q)) => ENABLED RequestStep(q)

\* request r uploaded a file and its handler has saved it
Saved(r) == upload[r] # <<>> /\ pc[r] \in {"streaming", "command", "done"}

\* C17: every request that uploads a file writes it to the one fixed
\* workspace file uploaded_audio.mp3: no other file is made for an upload
\* (the only other new file is the f the runs' tools write),
\* and the file holds the upload of whichever request saved last, so a run
\* can read the bytes another request uploaded.
C17_UploadsShareOneFile ==
    /\ DOMAIN fs \ DOMAIN InitFS \subseteq {AudioPath, AGENT_WORKSPACE_DIR \o F}
    /\ \A r \in Reqs :
           Saved(r) => /\ IsFile(fs, AudioPath)
                       /\ \E q \in Reqs : Saved(q) /\ fs[AudioPath].data = upload[q]

\* C17 witness: both requests uploaded, and the command of request 1 that
\* reads uploaded_audio.mp3 printed the bytes request 2 uploaded
C17_Witness ==
    /\ Saved(1) /\ Saved(2)
    /\ upload[1] # upload[2]
    /\ pc[1] = "streaming"
    /\ seen[1].kind = "Exit Code: / Output: / Error:"
    /\ seen[1].out = <<[k |-> "bytes", path |-> <<>>, data |-> upload[2]] >>

\* the step is one of request r's run: a frame is yielded, a tool call
\* starts or returns, or the final frame is yielded
RunActs(r) ==
    \/ sent'[r] # sent[r]
    \/ seen'[r] # seen[r]
    \/ pc'[r] = "command" /\ pc[r] # "command"
    \/ pc'[r] = "done" /\ pc[r] # "done"

\* C20: the uploaded file of a request is fully written to the workspace
\* before the Agent Runtime of that request is started: the step that ends
\* the handler's upload phase leaves the whole upload in the file and is no
\* step of the run, and every tool call and frame of the run comes after it.
C20_UploadSavedBeforeRun ==
    [][\A r \in Reqs :
          /\ (pc[r] = "reading" /\ pc'[r] # "reading") =>
                 /\ pc'[r] = "streaming"
                 /\ IsFile(fs', AudioPath)
                 /\ fs'[AudioPath].data = upload[r]
                 /\ ~RunActs(r)
          /\ RunActs(r) => pc[r] \notin {"idle", "reading"}
          /\ (RunActs(r) /\ upload[r] # <<>>) => IsFile(fs, AudioPath)]_vars

\* C20 witness: request 1 uploaded, its relay yielded a frame and its
\* command read its own upload back from the file
C20_Witness ==
    /\ upload[1] # <<>>
    /\ pc[1] = "streaming"
    /\ sent[1] = 1
    /\ seen[1].kind = "Exit Code: / Output: / Error:"
    /\ seen[1].out = <<[k |-> "bytes", path |-> <<>>, data |-> upload[1]] >>

\* the file the runs' tools work on
ServerFile == AGENT_WORKSPACE_DIR \o F

\* the step is a call of the given file tool by some run
ToolStep(tool) == last'.tool = tool /\ (last' # last \/ seen' # seen)

\* the texts ServerText becomes when the two runs' replacements are applied
\* to it one after the other, in either order, none or one or both of them
SerialTexts == {<<"a", "b">>, <<"c", "b">>, <<"a", "d">>, <<"c", "d">>}

\* C22: the tool bodies have no suspension point, so tool calls of concurrent
\* requests never interleave: while a command runs no other request takes a
\* step; an edit_file replaces in the content the file has at that moment,
\* so of two concurrent edits neither is lost and the file holds the
\* replacements applied in some serial order; and a read_file returns the
\* content the file has, never one from between a read and a write.
C22_ToolCallsDoNotInterleave ==
    [][/\ \A r \in Reqs : pc[r] = "command" => holder = r
       /\ holder # 0 =>
              /\ holder' = 0
              /\ pc'[holder] = "streaming"
              /\ sent' = sent
              /\ \A q \in Reqs \ {holder} : pc'[q] = pc[q] /\ seen'[q] = seen[q]
       /\ (ToolStep("edit_file") /\ IsFile(fs, ServerFile)) =>
              /\ last'.ret.kind = "Updated"
              /\ IsFile(fs', ServerFile)
              /\ fs'[ServerFile].data = Replace(fs[ServerFile].data, last'.old, last'.new)
       /\ (ToolStep("read_file") /\ IsFile(fs, ServerFile)) =>
              /\ last'.ret.kind = "content"
              /\ last'.ret.text = fs[ServerFile].data
              /\ fs' = fs
       /\ IsFile(fs', ServerFile) => fs'[ServerFile].data \in SerialTexts]_vars

\* C22 witness: both runs edited the file, request 2 last, and the file
\* holds both replacements
C22_Witness ==
    /\ pc[1] = "streaming" /\ pc[2] = "streaming"
    /\ seen[1].kind = "Updated" /\ seen[2].kind = "Updated"
    /\ last.tool = "edit_file" /\ last.old = EditOf(2)[1]
    /\ IsFile(fs, ServerFile)
    /\ fs[ServerFile].data = <<"c", "d">>

===========================================================================
